---- MODULE Spec2Model ----
(***************************************************************************)
(* Hotel reservation system (hotel_system.py): three JSON-backed           *)
(* collections (hotels, customers, reservations) and the HotelSystem       *)
(* facade that reloads, mutates and rewrites them on every call.           *)
(***************************************************************************)
EXTENDS Integers, Sequences, FiniteSets, TLC

(* ------------------------------ bounds --------------------------------- *)
\* identifiers passed to the operations are 1..MaxId
MaxId == 2
\* largest total_rooms passed to create_hotel
MaxRooms == 1
\* create_* is not called once a collection holds this many records
MaxHotels == 2
MaxCustomers == 1
MaxReservations == 2

(* ------------------------------ values --------------------------------- *)
\* A JSON value stored in a record field: an integer, or a non-numeric
\* value (a string).  Python's == between the two is False; <=, -= and +=
\* on a non-numeric value raise TypeError.
\* json.dump followed by json.load gives both kinds back unchanged, so the
\* variables below hold what load_data returns on the next call.
Num(n) == [t |-> "int", v |-> n]
Text(n) == [t |-> "str", v |-> n]
IsNum(x) == x.t = "int"
\* A value json.dump cannot write (a set, an object): save_data lets the
\* TypeError through after it has truncated the file.
Obj(n) == [t |-> "obj", v |-> n]
Serializable(x) == x.t # "obj"

\* identifiers the callers look up, and those they create customers with
Ids == {Num(i) : i \in 1..MaxId}
CustomerIds == {Num(i) : i \in 1..MaxCustomers}
\* total_rooms handed to create_hotel (int by its annotation)
RoomCounts == {Num(n) : n \in 0..MaxRooms}

\* the one timestamp str(datetime.now()) is abstracted to
Now == Text(9)

(* ------------------------------ entities ------------------------------- *)
\* (variant: a new hotel starts with no room available)
Hotel_no_rooms(hotel_id, name, location, total_rooms) ==
    [hotel_id |-> hotel_id, name |-> name, location |-> location,
     total_rooms |-> total_rooms, available_rooms |-> Num(0)]

\* Hotel.__init__ + to_dict
Hotel(hotel_id, name, location, total_rooms) ==
    [hotel_id |-> hotel_id, name |-> name, location |-> location,
     total_rooms |-> total_rooms, available_rooms |-> total_rooms]

\* Customer.__init__ + to_dict
Customer(customer_id, name, email, phone) ==
    [customer_id |-> customer_id, name |-> name, email |-> email,
     phone |-> phone]

\* Reservation.__init__ + to_dict
Reservation(reservation_id, customer_id, hotel_id) ==
    [reservation_id |-> reservation_id, customer_id |-> customer_id,
     hotel_id |-> hotel_id, date |-> Now]

(* ------------------------------ state ---------------------------------- *)
VARIABLES
    hotels,        \* contents of hotels.json
    customers,     \* contents of customers.json
    reservations,  \* contents of reservations.json
    ret,           \* outcome of the last call: operation, result, message
    disk,          \* what each of the three files is: see FileKinds
    calls          \* the calls that are under way step by step: see IdleCall

vars == <<hotels, customers, reservations, ret, disk, calls>>

\* hotels, customers and reservations hold what load_data returns for the
\* file when it returns; disk says what the file is:
\*   "absent"       no such file: load_data returns []
\*   "list"         the JSON list save_data wrote
\*   "invalid"      text that is no JSON: load_data returns []
\*   "undecodable"  bytes that are no UTF-8: load_data raises
FileKinds == {"absent", "list", "invalid", "undecodable"}
Files == {"hotels", "customers", "reservations"}

\* the callers whose calls can be under way at once
Callers == {1, 2}

\* a caller that has no call under way
\*   pc            where the call is
\*   op, id, customer_id, hotel_id   the method and its arguments
\*   hotels, customers, reservations the lists the call loaded (its locals)
\*   seen          the available_rooms the call compared with 0
\*   written       the files the call has saved, in the order of the saves
\*   result        what the call returned
IdleCall ==
    [pc |-> "idle", op |-> "", id |-> Num(0), customer_id |-> Num(0),
     hotel_id |-> Num(0), seen |-> Num(0), hotels |-> <<>>,
     reservations |-> <<>>, customers |-> <<>>, written |-> <<>>,
     result |-> ""]

Outcome(op, result, msg, value) ==
    [op |-> op, result |-> result, msg |-> msg, value |-> value]

(* ------------------------------ helpers -------------------------------- *)
\* (variant: the scan stops after the first record)
HasId_first(coll, key, id) == coll # <<>> /\ coll[1][key] = id

\* any(x[key] == id for x in coll)
HasId(coll, key, id) == \E i \in 1..Len(coll) : coll[i][key] = id

\* (variant: a scan that finds nothing settles on the first record)
FirstIndex_or_first(coll, key, id) ==
    IF \E i \in 1..Len(coll) : coll[i][key] = id
    THEN CHOOSE i \in 1..Len(coll) :
            /\ coll[i][key] = id
            /\ \A j \in 1..(i - 1) : coll[j][key] # id
    ELSE IF coll # <<>> THEN 1 ELSE 0

\* index of the first record whose key field equals id (0 if none):
\* the record a "for x in coll: if x[key] == id" loop stops at
FirstIndex(coll, key, id) ==
    IF HasId(coll, key, id)
    THEN CHOOSE i \in 1..Len(coll) :
            /\ coll[i][key] = id
            /\ \A j \in 1..(i - 1) : coll[j][key] # id
    ELSE 0

\* (variant: the records after the first match are dropped as well)
Without_cut(coll, key, id) ==
    LET hit == {i \in 1..Len(coll) : coll[i][key] = id} IN
    IF hit = {} THEN coll
    ELSE SubSeq(coll, 1, (CHOOSE i \in hit : \A j \in hit : i <= j) - 1)

\* [x for x in coll if x[key] != id]
RECURSIVE Without(_, _, _)
Without(coll, key, id) ==
    IF coll = <<>> THEN <<>>
    ELSE IF Head(coll)[key] = id THEN Without(Tail(coll), key, id)
    ELSE <<Head(coll)>> \o Without(Tail(coll), key, id)

\* list.remove at a known index
RemoveAt(coll, i) ==
    [j \in 1..(Len(coll) - 1) |-> IF j < i THEN coll[j] ELSE coll[j + 1]]

\* for key, value in kwargs.items(): if key in rec: rec[key] = value
ApplyKwargs(rec, kwargs) ==
    [k \in DOMAIN rec |-> IF k \in DOMAIN kwargs THEN kwargs[k] ELSE rec[k]]

\* (variant: any stored customer will do)
customer_exists_any(custs, customer_id) == custs # <<>>

\* not any(c["customer_id"] == customer_id for c in customers), negated
customer_exists(custs, customer_id) == HasId(custs, "customer_id", customer_id)

\* (variant: no hotel is ever full)
no_rooms_never(hotel) == FALSE

\* (variant: < 0)
no_rooms_strict(hotel) == hotel.available_rooms.v < 0

\* hotel["available_rooms"] <= 0
no_rooms(hotel) == hotel.available_rooms.v <= 0

\* (variant: the decrement is left out)
take_room_none(hotel) == hotel

\* hotel["available_rooms"] -= 1
take_room(hotel) ==
    [hotel EXCEPT !.available_rooms = Num(hotel.available_rooms.v - 1)]

\* (variant: the counter is reset to total_rooms)
release_room_reset(hotel) ==
    [hotel EXCEPT !.available_rooms = hotel.total_rooms]

\* hotel["available_rooms"] += 1
release_room(hotel) ==
    [hotel EXCEPT !.available_rooms = Num(hotel.available_rooms.v + 1)]

(* ------------------------------ inputs --------------------------------- *)
\* keyword updates handed to modify_hotel ("stars" is no field of a hotel)
HotelKwargs ==
    {("hotel_id" :> id) : id \in Ids}
    \cup {("available_rooms" :> Num(-1)),
          ("available_rooms" :> Text(1)),
          ("total_rooms" :> Num(0)) @@ ("stars" :> Num(5)),
          ("stars" :> Num(5)),
          ("name" :> Obj(1))}

\* keyword updates handed to modify_customer ("age" is no field of a customer)
CustomerKwargs ==
    {("customer_id" :> id) : id \in Ids}
    \cup {("name" :> Text(1)) @@ ("age" :> Num(5)),
          ("age" :> Num(5)),
          ("name" :> Obj(1))}

(* ------------------------------ hotels --------------------------------- *)
create_hotel(hotel_id, name, location, total_rooms) ==
    IF HasId(hotels, "hotel_id", hotel_id)
    THEN /\ ret' = Outcome("create_hotel", "False",
                           "Hotel ID already exists.", <<>>)
         /\ UNCHANGED <<hotels, customers, reservations>>
    ELSE /\ hotels' = Append(hotels,
                             Hotel(hotel_id, name, location, total_rooms))
         /\ ret' = Outcome("create_hotel", "True", "", <<>>)
         /\ UNCHANGED <<customers, reservations>>

delete_hotel(hotel_id) ==
    LET new_hotels == Without(hotels, "hotel_id", hotel_id) IN
    IF Len(new_hotels) = Len(hotels)
    THEN /\ ret' = Outcome("delete_hotel", "False", "Hotel not found.", <<>>)
         /\ UNCHANGED <<hotels, customers, reservations>>
    ELSE /\ hotels' = new_hotels
         /\ ret' = Outcome("delete_hotel", "True", "", <<>>)
         /\ UNCHANGED <<customers, reservations>>

display_hotels ==
    /\ ret' = Outcome("display_hotels", "list", "", hotels)
    /\ UNCHANGED <<hotels, customers, reservations>>

\* (variant: the positional parameter has another name than the field)
binds_any(id_param, kwargs) == TRUE

\* def f(self, <id_param>, **kwargs): a keyword named like the positional
\* parameter cannot be bound ("got multiple values for argument")
binds(id_param, kwargs) == id_param \notin DOMAIN kwargs

\* messages of the exceptions that leave a call
MultipleValues == "got multiple values for argument"
NotSerializable == "is not JSON serializable"
NotSupported == "not supported between instances of 'str' and 'int'"
CannotConcatenate == "can only concatenate str (not \"int\") to str"
CannotDecode == "'utf-8' codec can't decode byte"

\* json.dump(data, file, indent=4) gets through a record
CanDump(rec) == \A k \in DOMAIN rec : Serializable(rec[k])

modify_hotel(hotel_id, kwargs) ==
    LET i == FirstIndex(hotels, "hotel_id", hotel_id) IN
    IF ~binds("hotel_id", kwargs)
    THEN /\ ret' = Outcome("modify_hotel", "TypeError", MultipleValues, <<>>)
         /\ UNCHANGED <<hotels, customers, reservations>>
    ELSE IF i # 0 /\ ~CanDump(ApplyKwargs(hotels[i], kwargs))
    THEN \* save_data: open(..., "w") truncates, json.dump raises
         /\ hotels' = <<>>
         /\ ret' = Outcome("modify_hotel", "TypeError", NotSerializable, <<>>)
         /\ UNCHANGED <<customers, reservations>>
    ELSE IF i # 0
    THEN /\ hotels' = [hotels EXCEPT ![i] = ApplyKwargs(hotels[i], kwargs)]
         /\ ret' = Outcome("modify_hotel", "True", "", <<>>)
         /\ UNCHANGED <<customers, reservations>>
    ELSE /\ ret' = Outcome("modify_hotel", "False", "Hotel not found.", <<>>)
         /\ UNCHANGED <<hotels, customers, reservations>>

(* ------------------------------ customers ------------------------------ *)
create_customer(customer_id, name, email, phone) ==
    IF HasId(customers, "customer_id", customer_id)
    THEN /\ ret' = Outcome("create_customer", "False",
                           "Customer ID already exists.", <<>>)
         /\ UNCHANGED <<hotels, customers, reservations>>
    ELSE /\ customers' = Append(customers,
                                Customer(customer_id, name, email, phone))
         /\ ret' = Outcome("create_customer", "True", "", <<>>)
         /\ UNCHANGED <<hotels, reservations>>

\* (variant: the customer's reservations are deleted with the customer)
delete_customer_cascade(customer_id) ==
    LET new_customers == Without(customers, "customer_id", customer_id) IN
    IF Len(new_customers) = Len(customers)
    THEN /\ ret' = Outcome("delete_customer", "False",
                           "Customer not found.", <<>>)
         /\ UNCHANGED <<hotels, customers, reservations>>
    ELSE /\ customers' = new_customers
         /\ reservations' = Without(reservations, "customer_id", customer_id)
         /\ ret' = Outcome("delete_customer", "True", "", <<>>)
         /\ UNCHANGED hotels

delete_customer(customer_id) ==
    LET new_customers == Without(customers, "customer_id", customer_id) IN
    IF Len(new_customers) = Len(customers)
    THEN /\ ret' = Outcome("delete_customer", "False",
                           "Customer not found.", <<>>)
         /\ UNCHANGED <<hotels, customers, reservations>>
    ELSE /\ customers' = new_customers
         /\ ret' = Outcome("delete_customer", "True", "", <<>>)
         /\ UNCHANGED <<hotels, reservations>>

display_customers ==
    /\ ret' = Outcome("display_customers", "list", "", customers)
    /\ UNCHANGED <<hotels, customers, reservations>>

modify_customer(customer_id, kwargs) ==
    LET i == FirstIndex(customers, "customer_id", customer_id) IN
    IF ~binds("customer_id", kwargs)
    THEN /\ ret' = Outcome("modify_customer", "TypeError", MultipleValues,
                           <<>>)
         /\ UNCHANGED <<hotels, customers, reservations>>
    ELSE IF i # 0 /\ ~CanDump(ApplyKwargs(customers[i], kwargs))
    THEN \* save_data: open(..., "w") truncates, json.dump raises
         /\ customers' = <<>>
         /\ ret' = Outcome("modify_customer", "TypeError", NotSerializable,
                           <<>>)
         /\ UNCHANGED <<hotels, reservations>>
    ELSE IF i # 0
    THEN /\ customers' =
                [customers EXCEPT ![i] = ApplyKwargs(customers[i], kwargs)]
         /\ ret' = Outcome("modify_customer", "True", "", <<>>)
         /\ UNCHANGED <<hotels, reservations>>
    ELSE /\ ret' = Outcome("modify_customer", "False",
                           "Customer not found.", <<>>)
         /\ UNCHANGED <<hotels, customers, reservations>>

(* ------------------------------ reservations --------------------------- *)
\* what create_reservation computes from the loaded collections: its
\* result, the available_rooms it compared with 0, and the lists it saves
CreateOutcome(hs, cs, rs, reservation_id, customer_id, hotel_id) ==
    LET i == FirstIndex(hs, "hotel_id", hotel_id)
        refused(msg) == [result |-> "False", msg |-> msg, seen |-> Num(0),
                         hotels |-> hs, reservations |-> rs]
    IN
    IF HasId(rs, "reservation_id", reservation_id)
    THEN refused("Reservation ID already exists.")
    ELSE IF ~customer_exists(cs, customer_id)
    THEN refused("Customer does not exist.")
    ELSE IF i = 0
    THEN refused("Hotel does not exist.")
    ELSE IF ~IsNum(hs[i].available_rooms)
    THEN \* hotel["available_rooms"] <= 0 raises
         [result |-> "TypeError", msg |-> NotSupported, seen |-> Num(0),
          hotels |-> hs, reservations |-> rs]
    ELSE IF no_rooms(hs[i])
    THEN [refused("No available rooms.") EXCEPT
             !.seen = hs[i].available_rooms]
    ELSE [result |-> "True", msg |-> "", seen |-> hs[i].available_rooms,
          hotels |-> [hs EXCEPT ![i] = take_room(hs[i])],
          reservations |-> Append(rs,
                Reservation(reservation_id, customer_id, hotel_id))]

create_reservation(reservation_id, customer_id, hotel_id) ==
    LET o == CreateOutcome(hotels, customers, reservations,
                           reservation_id, customer_id, hotel_id) IN
    /\ hotels' = o.hotels
    /\ reservations' = o.reservations
    /\ ret' = Outcome("create_reservation", o.result, o.msg, <<>>)
    /\ UNCHANGED customers

\* what cancel_reservation computes from the loaded collections: its
\* result and the collections as stored when it returns
CancelOutcome(hs, rs, reservation_id) ==
    LET i == FirstIndex(rs, "reservation_id", reservation_id) IN
    IF i = 0
    THEN [result |-> "False", msg |-> "Reservation not found.",
          hotels |-> hs, reservations |-> rs]
    ELSE IF \E j \in 1..Len(hs) :
                /\ hs[j].hotel_id = rs[i].hotel_id
                /\ ~IsNum(hs[j].available_rooms)
    THEN \* hotel["available_rooms"] += 1 raises before either save
         [result |-> "TypeError", msg |-> CannotConcatenate,
          hotels |-> hs, reservations |-> rs]
    ELSE [result |-> "True", msg |-> "",
          hotels |-> [j \in 1..Len(hs) |->
                IF hs[j].hotel_id = rs[i].hotel_id
                THEN release_room(hs[j])
                ELSE hs[j]],
          reservations |-> RemoveAt(rs, i)]

cancel_reservation(reservation_id) ==
    LET o == CancelOutcome(hotels, reservations, reservation_id) IN
    /\ hotels' = o.hotels
    /\ reservations' = o.reservations
    /\ ret' = Outcome("cancel_reservation", o.result, o.msg, <<>>)
    /\ UNCHANGED customers

display_reservations ==
    /\ ret' = Outcome("display_reservations", "list", "", reservations)
    /\ UNCHANGED <<hotels, customers, reservations>>

(* ------------------------------ specification -------------------------- *)
Init ==
    /\ hotels = <<>>
    /\ customers = <<>>
    /\ reservations = <<>>
    /\ ret = Outcome("init", "", "", <<>>)
    /\ disk = [f \in Files |-> "absent"]
    /\ calls = [p \in Callers |-> IdleCall]

\* save_data(file, ...) of a call that got as far as its saves: the files
\* it wrote hold a list from now on
\* and the file json.dump gave up on holds the beginning of a list
Saved(files) ==
    disk' = [f \in Files |->
                IF f \in files /\ ret'.result = "True" THEN "list"
                ELSE IF f \in files /\ ret'.msg = NotSerializable
                THEN "invalid"
                ELSE disk[f]]

\* a record of coll carries id in its key field (used by the guards and
\* the properties, independently of the operations' own scans)
Present(coll, key, id) == \E i \in DOMAIN coll : coll[i][key] = id

\* create_* is called while the collection is below its cap, or with an
\* identifier that is already there
CreateHotel ==
    \E id \in Ids, n \in RoomCounts :
        /\ Len(hotels) < MaxHotels \/ Present(hotels, "hotel_id", id)
        /\ create_hotel(id, Text(0), Text(0), n)
        /\ Saved({"hotels"})
        /\ UNCHANGED calls
DeleteHotel ==
    \E id \in Ids :
        delete_hotel(id) /\ Saved({"hotels"}) /\ UNCHANGED calls
ModifyHotel ==
    \E id \in Ids, kw \in HotelKwargs :
        modify_hotel(id, kw) /\ Saved({"hotels"}) /\ UNCHANGED calls
DisplayHotels == display_hotels /\ UNCHANGED <<disk, calls>>
CreateCustomer ==
    \E id \in CustomerIds :
        /\ Len(customers) < MaxCustomers
              \/ Present(customers, "customer_id", id)
        /\ create_customer(id, Text(0), Text(0), Text(0))
        /\ Saved({"customers"})
        /\ UNCHANGED calls
DeleteCustomer ==
    \E id \in Ids :
        delete_customer(id) /\ Saved({"customers"}) /\ UNCHANGED calls
ModifyCustomer ==
    \E id \in Ids, kw \in CustomerKwargs :
        modify_customer(id, kw) /\ Saved({"customers"}) /\ UNCHANGED calls
DisplayCustomers == display_customers /\ UNCHANGED <<disk, calls>>
CreateReservation ==
    \E r \in Ids, c \in Ids, h \in Ids :
        /\ Len(reservations) < MaxReservations
              \/ Present(reservations, "reservation_id", r)
        /\ create_reservation(r, c, h)
        /\ Saved({"hotels", "reservations"})
        /\ UNCHANGED calls
CancelReservation ==
    \E r \in Ids :
        /\ cancel_reservation(r)
        /\ Saved({"hotels", "reservations"})
        /\ UNCHANGED calls
DisplayReservations == display_reservations /\ UNCHANGED <<disk, calls>>

Next ==
    \/ CreateHotel
    \/ DeleteHotel
    \/ ModifyHotel
    \/ DisplayHotels
    \/ CreateCustomer
    \/ DeleteCustomer
    \/ ModifyCustomer
    \/ DisplayCustomers
    \/ CreateReservation
    \/ CancelReservation
    \/ DisplayReservations

Spec == Init /\ [][Next]_vars

\* sequential use in which modify_hotel is never called
NextNoModifyHotel ==
    \/ CreateHotel
    \/ DeleteHotel
    \/ DisplayHotels
    \/ CreateCustomer
    \/ DeleteCustomer
    \/ ModifyCustomer
    \/ DisplayCustomers
    \/ CreateReservation
    \/ CancelReservation
    \/ DisplayReservations

SpecNoModifyHotel == Init /\ [][NextNoModifyHotel]_vars

(* ------------------------------ calls in steps ------------------------ *)
\* (variant: reservations are saved first)
save_order_reversed == <<"reservations", "hotels">>

\* save_data(self.hotels_file, hotels);
\* save_data(self.reservations_file, reservations)
save_order == <<"hotels", "reservations">>

\* (variant: the record is added to the reservations in the file)
to_save_merged(p, f) ==
    IF f = "reservations" /\ calls[p].op = "create_reservation"
    THEN Append(reservations,
                calls[p].reservations[Len(calls[p].reservations)])
    ELSE calls[p][f]

\* the list a save writes: the call's local list
to_save(p, f) == calls[p][f]

\* no call is under way
Quiet == \A p \in Callers : calls[p].pc = "idle"

Moves(p, c) ==
    /\ calls' = [calls EXCEPT ![p] = c]
    /\ UNCHANGED <<hotels, customers, reservations, ret, disk>>

BeginCreate(p, ids) ==
    \E r \in ids, c \in CustomerIds, h \in Ids :
        /\ calls[p].pc = "idle"
        /\ Moves(p, [IdleCall EXCEPT !.pc = "load_reservations",
                                     !.op = "create_reservation", !.id = r,
                                     !.customer_id = c, !.hotel_id = h])

BeginCancel(p) ==
    \E r \in Ids :
        /\ calls[p].pc = "idle"
        /\ Moves(p, [IdleCall EXCEPT !.pc = "load_reservations",
                                     !.op = "cancel_reservation", !.id = r])

\* reservations = load_data(self.reservations_file)
LoadReservations(p) ==
    /\ calls[p].pc = "load_reservations"
    /\ Moves(p, [calls[p] EXCEPT !.pc = "load_hotels",
                                 !.reservations = reservations])

\* hotels = load_data(self.hotels_file)
LoadHotels(p) ==
    /\ calls[p].pc = "load_hotels"
    /\ Moves(p, [calls[p] EXCEPT
                    !.pc = IF calls[p].op = "create_reservation"
                           THEN "load_customers" ELSE "decide",
                    !.hotels = hotels])

\* customers = load_data(self.customers_file)
LoadCustomers(p) ==
    /\ calls[p].pc = "load_customers"
    /\ Moves(p, [calls[p] EXCEPT !.pc = "decide", !.customers = customers])

\* the checks and the updates of the local lists, up to the first save or
\* to the return (or the exception) that comes instead
Decide(p) ==
    LET c == calls[p]
        o == IF c.op = "create_reservation"
             THEN CreateOutcome(c.hotels, c.customers, c.reservations,
                                c.id, c.customer_id, c.hotel_id)
             ELSE CancelOutcome(c.hotels, c.reservations, c.id) @@
                  [seen |-> Num(0)]
    IN
    /\ c.pc = "decide"
    /\ IF o.result = "True"
       THEN /\ calls' = [calls EXCEPT ![p] =
                   [c EXCEPT !.pc = "save", !.seen = o.seen,
                             !.hotels = o.hotels,
                             !.reservations = o.reservations]]
            /\ UNCHANGED ret
       ELSE /\ calls' = [calls EXCEPT ![p] =
                   [c EXCEPT !.pc = "returned", !.seen = o.seen,
                             !.result = o.result]]
            /\ ret' = Outcome(c.op, o.result, o.msg, <<>>)
    /\ UNCHANGED <<hotels, customers, reservations, disk>>

\* the next save_data of the call; the call returns True after the last
Save(p) ==
    LET c == calls[p]
        f == save_order[Len(c.written) + 1]
        last == Len(c.written) + 1 = Len(save_order)
    IN
    /\ c.pc = "save"
    /\ hotels' = IF f = "hotels" THEN to_save(p, f) ELSE hotels
    /\ reservations' = IF f = "reservations" THEN to_save(p, f)
                       ELSE reservations
    /\ disk' = [disk EXCEPT ![f] = "list"]
    /\ calls' = [calls EXCEPT ![p] =
            [c EXCEPT !.written = Append(c.written, f),
                      !.pc = IF last THEN "returned" ELSE "save",
                      !.result = IF last THEN "True" ELSE ""]]
    /\ ret' = IF last THEN Outcome(c.op, "True", "", <<>>) ELSE ret
    /\ UNCHANGED customers

\* the process is stopped before one of its saves, for good
Stop(p) ==
    /\ calls[p].pc = "save"
    /\ Moves(p, [calls[p] EXCEPT !.pc = "stopped"])

\* the caller is ready for its next call
Finish(p) ==
    /\ calls[p].pc = "returned"
    /\ Moves(p, IdleCall)

\* one caller; it can be stopped between its steps
NextSteps ==
    \/ Quiet /\ CreateHotel
    \/ Quiet /\ CreateCustomer
    \/ BeginCreate(1, Ids)
    \/ BeginCancel(1)
    \/ LoadReservations(1)
    \/ LoadHotels(1)
    \/ LoadCustomers(1)
    \/ Decide(1)
    \/ Save(1)
    \/ Stop(1)
    \/ Finish(1)

SpecSteps == Init /\ [][NextSteps]_vars

\* the reservation ids of the two interleaved calls: one more than the
\* ids of the reservations made before them
RaceIds == Ids \cup {Num(MaxId + 1)}

\* two callers, each with one create_reservation call; the two calls
\* interleave step by step, after the calls that were made one at a time
NextRace ==
    \/ Quiet /\ CreateHotel
    \/ Quiet /\ CreateCustomer
    \/ Quiet /\ CreateReservation
    \/ \E p \in Callers : BeginCreate(p, RaceIds)
    \/ \E p \in Callers : LoadReservations(p)
    \/ \E p \in Callers : LoadHotels(p)
    \/ \E p \in Callers : LoadCustomers(p)
    \/ \E p \in Callers : Decide(p)
    \/ \E p \in Callers : Save(p)

SpecRace == Init /\ [][NextRace]_vars

(* ------------------------------ storage faults ------------------------- *)
\* load_data(file): json.load on bytes that are no UTF-8 raises
\* UnicodeDecodeError, which is neither JSONDecodeError nor OSError
load_raises(files) == \E f \in files : disk[f] = "undecodable"

\* a call of operation op: it loads the files in loads first, then runs
\* body, whose saves go to the files in saves
Call(op, loads, body, saves) ==
    IF load_raises(loads)
    THEN /\ ret' = Outcome(op, "UnicodeDecodeError", CannotDecode, <<>>)
         /\ UNCHANGED <<hotels, customers, reservations, disk, calls>>
    ELSE body /\ Saved(saves) /\ UNCHANGED calls

\* a file is removed or overwritten from outside the program; load_data
\* returns [] for a file that is absent or holds no JSON
Damage ==
    \E f \in Files, kind \in FileKinds \ {"list"} :
        /\ disk' = [disk EXCEPT ![f] = kind]
        /\ hotels' = IF f = "hotels" THEN <<>> ELSE hotels
        /\ customers' = IF f = "customers" THEN <<>> ELSE customers
        /\ reservations' = IF f = "reservations" THEN <<>> ELSE reservations
        /\ ret' = Outcome("", "", "", <<>>)
        /\ UNCHANGED calls

\* the calls made while files get damaged: one identifier, keywords that
\* reach **kwargs
StoredId == Num(1)
StoredKwargs == {("name" :> Text(1)), ("name" :> Obj(1))}

StoredCreateHotel ==
    \E n \in RoomCounts :
        Call("create_hotel", {"hotels"},
             create_hotel(StoredId, Text(0), Text(0), n), {"hotels"})
StoredDeleteHotel ==
    Call("delete_hotel", {"hotels"}, delete_hotel(StoredId), {"hotels"})
StoredModifyHotel ==
    \E kw \in StoredKwargs :
        Call("modify_hotel", {"hotels"}, modify_hotel(StoredId, kw),
             {"hotels"})
StoredDisplayHotels ==
    Call("display_hotels", {"hotels"}, display_hotels, {})
StoredCreateCustomer ==
    Call("create_customer", {"customers"},
         create_customer(StoredId, Text(0), Text(0), Text(0)), {"customers"})
StoredDeleteCustomer ==
    Call("delete_customer", {"customers"}, delete_customer(StoredId),
         {"customers"})
StoredModifyCustomer ==
    \E kw \in StoredKwargs :
        Call("modify_customer", {"customers"}, modify_customer(StoredId, kw),
             {"customers"})
StoredDisplayCustomers ==
    Call("display_customers", {"customers"}, display_customers, {})
StoredCreateReservation ==
    Call("create_reservation", Files,
         create_reservation(StoredId, StoredId, StoredId),
         {"hotels", "reservations"})
StoredCancelReservation ==
    Call("cancel_reservation", {"reservations", "hotels"},
         cancel_reservation(StoredId), {"hotels", "reservations"})
StoredDisplayReservations ==
    Call("display_reservations", {"reservations"}, display_reservations, {})

NextStorage ==
    \/ Damage
    \/ StoredCreateHotel
    \/ StoredDeleteHotel
    \/ StoredModifyHotel
    \/ StoredDisplayHotels
    \/ StoredCreateCustomer
    \/ StoredDeleteCustomer
    \/ StoredModifyCustomer
    \/ StoredDisplayCustomers
    \/ StoredCreateReservation
    \/ StoredCancelReservation
    \/ StoredDisplayReservations

SpecStorage == Init /\ [][NextStorage]_vars

(* ------------------------------ properties ----------------------------- *)
StoresUnchanged == UNCHANGED <<hotels, customers, reservations>>

\* the hotels as they are when the counter of every hotel whose hotel_id is
\* id has moved by delta and nothing else has changed
CountersMoved(hs, id, delta) ==
    [j \in DOMAIN hs |->
        IF hs[j].hotel_id = id
        THEN [hs[j] EXCEPT !.available_rooms = Num(hs[j].available_rooms.v + delta)]
        ELSE hs[j]]

\* C1: every hotel has 0 <= available_rooms <= total_rooms in every
\* reachable state.
C1_AvailableWithinTotal ==
    \A i \in DOMAIN hotels :
        /\ IsNum(hotels[i].available_rooms)
        /\ IsNum(hotels[i].total_rooms)
        /\ 0 <= hotels[i].available_rooms.v
        /\ hotels[i].available_rooms.v <= hotels[i].total_rooms.v

\* C2: every hotel's available_rooms equals its total_rooms minus the
\* number of reservation records that carry its hotel_id.
C2_AvailableMatchesReservations ==
    \A i \in DOMAIN hotels :
        /\ IsNum(hotels[i].available_rooms)
        /\ IsNum(hotels[i].total_rooms)
        /\ hotels[i].available_rooms.v =
              hotels[i].total_rooms.v
              - Cardinality({k \in DOMAIN reservations :
                               reservations[k].hotel_id = hotels[i].hotel_id})

\* C3: no two records of one collection share their identifier, whatever
\* keyword updates modify_hotel and modify_customer are called with.
Unique(coll, key) ==
    \A i \in DOMAIN coll, j \in DOMAIN coll :
        coll[i][key] = coll[j][key] => i = j

C3_UniqueIds ==
    /\ Unique(hotels, "hotel_id")
    /\ Unique(customers, "customer_id")
    /\ Unique(reservations, "reservation_id")

\* a modify_hotel call that names hotel_id among its keywords has been made
\* while two hotels are stored
C3_Witness ==
    /\ Len(hotels) = 2
    /\ ret.op = "modify_hotel"
    /\ ret.result = "TypeError"

\* C4: a successful create_reservation(r, c, h) lowers the available_rooms
\* of the hotel with hotel_id h by one, a successful cancel_reservation(r)
\* raises that of the hotel the reservation names by one, and in both cases
\* no other hotel and no other field changes.
C4_ReservationMovesOneCounter ==
    [][/\ \A r \in Ids, c \in Ids, h \in Ids :
            (/\ ret'.op = "create_reservation" /\ ret'.result = "True"
             /\ create_reservation(r, c, h))
            => /\ Present(hotels, "hotel_id", h)
               /\ hotels' = CountersMoved(hotels, h, -1)
       /\ \A r \in Ids :
            (/\ ret'.op = "cancel_reservation" /\ ret'.result = "True"
             /\ cancel_reservation(r))
            => \E i \in DOMAIN reservations :
                 /\ reservations[i].reservation_id = r
                 /\ hotels' = CountersMoved(hotels,
                                            reservations[i].hotel_id, 1)
      ]_vars

\* a reservation has just been cancelled with two hotels stored, one of
\* them the hotel it names
C4_Witness ==
    /\ ret.op = "cancel_reservation"
    /\ ret.result = "True"
    /\ Len(hotels) = 2
    /\ \E j \in DOMAIN hotels : hotels[j].available_rooms = Num(1)

\* C5: create_reservation(r, c, h) returns False and leaves the three
\* collections unchanged whenever c is no stored customer_id or h is no
\* stored hotel_id.
C5_MissingForeignKeyRejected ==
    [][\A r \in Ids, c \in Ids, h \in Ids :
          (/\ ret'.op = "create_reservation"
           /\ \/ ~Present(customers, "customer_id", c)
              \/ ~Present(hotels, "hotel_id", h)
           /\ create_reservation(r, c, h))
          => (ret'.result = "False" /\ StoresUnchanged)
      ]_vars

\* create_reservation has just been refused for a hotel that is not stored,
\* while a customer and another hotel are
C5_Witness ==
    /\ ret.op = "create_reservation"
    /\ ret.msg = "Hotel does not exist."
    /\ hotels # <<>>
    /\ customers # <<>>

\* C6: create_hotel, create_customer and create_reservation called with an
\* identifier that is already stored return False and leave the three
\* collections unchanged.
C6_DuplicateIdRejected ==
    [][/\ \A id \in Ids, n \in RoomCounts :
            (/\ ret'.op = "create_hotel"
             /\ Present(hotels, "hotel_id", id)
             /\ create_hotel(id, Text(0), Text(0), n))
            => (ret'.result = "False" /\ StoresUnchanged)
       /\ \A id \in CustomerIds :
            (/\ ret'.op = "create_customer"
             /\ Present(customers, "customer_id", id)
             /\ create_customer(id, Text(0), Text(0), Text(0)))
            => (ret'.result = "False" /\ StoresUnchanged)
       /\ \A r \in Ids, c \in Ids, h \in Ids :
            (/\ ret'.op = "create_reservation"
             /\ Present(reservations, "reservation_id", r)
             /\ create_reservation(r, c, h))
            => (ret'.result = "False" /\ StoresUnchanged)
      ]_vars

\* create_hotel has just been refused while both hotels are stored
C6_Witness ==
    /\ ret.op = "create_hotel"
    /\ ret.msg = "Hotel ID already exists."
    /\ Len(hotels) = 2

\* C7: create_reservation(r, c, h) returns False and leaves the three
\* collections unchanged when the hotel its scan finds for h has
\* available_rooms <= 0, and a successful create_reservation lowers no
\* counter that was not positive.
C7_NoRoomsRejected ==
    [][\A r \in Ids, c \in Ids, h \in Ids :
          (ret'.op = "create_reservation" /\ create_reservation(r, c, h))
          => /\ \A j \in DOMAIN hotels :
                  (/\ hotels[j].hotel_id = h
                   /\ \A k \in 1..(j - 1) : hotels[k].hotel_id # h
                   /\ IsNum(hotels[j].available_rooms)
                   /\ hotels[j].available_rooms.v <= 0)
                  => (ret'.result = "False" /\ StoresUnchanged)
             /\ ret'.result = "True"
                  => \A j \in DOMAIN hotels :
                       (/\ IsNum(hotels[j].available_rooms)
                        /\ hotels[j].available_rooms.v <= 0)
                       => hotels'[j] = hotels[j]
      ]_vars

\* create_reservation has just been refused for want of rooms at a hotel
\* whose counter is negative
C7_Witness ==
    /\ ret.op = "create_reservation"
    /\ ret.msg = "No available rooms."
    /\ \E j \in DOMAIN hotels : hotels[j].available_rooms = Num(-1)

\* C8: cancel_reservation(r) on a stored reservation_id returns True,
\* removes that one record, leaving the other reservations as they were,
\* and raises by one the available_rooms of the hotels whose hotel_id is
\* the cancelled reservation's, and of no other.
C8_CancelRemovesAndReleases ==
    [][\A r \in Ids :
          (/\ ret'.op = "cancel_reservation"
           /\ Present(reservations, "reservation_id", r)
           /\ cancel_reservation(r))
          => \E i \in DOMAIN reservations :
               /\ reservations[i].reservation_id = r
               /\ ret'.result = "True"
               /\ Len(reservations') = Len(reservations) - 1
               /\ \A k \in DOMAIN reservations' :
                     reservations'[k] =
                        IF k < i THEN reservations[k] ELSE reservations[k + 1]
               /\ hotels' = CountersMoved(hotels,
                                          reservations[i].hotel_id, 1)
      ]_vars

\* C9: cancel_reservation(r) on a reservation_id that is not stored returns
\* False and writes nothing.
C9_CancelMissingRejected ==
    [][\A r \in Ids :
          (/\ ret'.op = "cancel_reservation"
           /\ ~Present(reservations, "reservation_id", r)
           /\ cancel_reservation(r))
          => (ret'.result = "False" /\ StoresUnchanged)
      ]_vars

\* cancel_reservation has just been refused while another reservation is
\* stored
C9_Witness ==
    /\ ret.op = "cancel_reservation"
    /\ ret.msg = "Reservation not found."
    /\ reservations # <<>>

\* C10: cancel_reservation(r) right after a successful
\* create_reservation(r, c, h) returns True and leaves the reservations and
\* every hotel's available_rooms as they were before the create.
C10_CreateThenCancelRestores ==
    [][\A r \in Ids, c \in Ids, h \in Ids :
          (/\ ret'.op = "create_reservation" /\ ret'.result = "True"
           /\ create_reservation(r, c, h))
          => LET o == CancelOutcome(hotels', reservations', r) IN
             /\ o.result = "True"
             /\ o.reservations = reservations
             /\ Len(o.hotels) = Len(hotels)
             /\ \A j \in DOMAIN hotels :
                   o.hotels[j].available_rooms = hotels[j].available_rooms
      ]_vars

\* a reservation has just been created at a hotel that had one room left,
\* beside an earlier reservation
C10_Witness ==
    /\ ret.op = "create_reservation"
    /\ ret.result = "True"
    /\ Len(reservations) = 2
    /\ \E j \in DOMAIN hotels :
          /\ hotels[j].hotel_id = reservations[2].hotel_id
          /\ hotels[j].available_rooms = Num(0)

(* ------------------------------ C11 .. C20 ----------------------------- *)
Mutators ==
    {"create_hotel", "delete_hotel", "modify_hotel", "create_customer",
     "delete_customer", "modify_customer", "create_reservation",
     "cancel_reservation"}
Displays == {"display_hotels", "display_customers", "display_reservations"}

\* C11: no fault crosses the facade. Every create_*, delete_*, modify_* and
\* cancel_reservation call whose arguments bind to the method's parameters
\* completes with a boolean, and every display_* call completes with a
\* sequence; no call ends in an exception.
C11_NoFaultCrossesFacade ==
    /\ (ret.op \in Mutators /\ ret.msg # MultipleValues)
          => ret.result \in {"True", "False"}
    /\ ret.op \in Displays => ret.result = "list"

\* the record a modify call is claimed to leave: the supplied keys that
\* are fields take the supplied values, nothing else changes
Updated(rec, kwargs) ==
    [k \in DOMAIN rec |-> IF k \in DOMAIN kwargs THEN kwargs[k] ELSE rec[k]]

ModifiedAsClaimed(coll, coll2, key, id, kwargs) ==
    IF Present(coll, key, id)
    THEN /\ ret'.result = "True"
         /\ Len(coll2) = Len(coll)
         /\ \A i \in DOMAIN coll :
               coll2[i] = IF coll[i][key] = id
                          THEN Updated(coll[i], kwargs)
                          ELSE coll[i]
    ELSE /\ ret'.result = "False"
         /\ coll2 = coll

\* C13: modify_hotel / modify_customer with keywords that reach **kwargs:
\* on a present identifier the call returns True and changes, on the
\* matching record only, exactly the supplied keys that are fields of the
\* record (other keys are ignored, other records unchanged); on an absent
\* identifier it returns False and writes nothing.
C13_ModifyUpdatesSuppliedFields ==
    [][/\ \A id \in Ids, kw \in HotelKwargs :
             (/\ ret'.op = "modify_hotel"
              /\ "hotel_id" \notin DOMAIN kw
              /\ modify_hotel(id, kw))
             => /\ ModifiedAsClaimed(hotels, hotels', "hotel_id", id, kw)
                /\ Present(hotels, "hotel_id", id)
                      \/ disk'["hotels"] = disk["hotels"]
       /\ \A id \in Ids, kw \in CustomerKwargs :
             (/\ ret'.op = "modify_customer"
              /\ "customer_id" \notin DOMAIN kw
              /\ modify_customer(id, kw))
             => /\ ModifiedAsClaimed(customers, customers', "customer_id",
                                     id, kw)
                /\ Present(customers, "customer_id", id)
                      \/ disk'["customers"] = disk["customers"]
      ]_vars

\* a later cancel_reservation of every stored reservation that carries id
\* in its key field returns True and removes exactly that reservation
StillCancellable(hs, rs, key, id) ==
    \A i \in DOMAIN rs :
        rs[i][key] = id
        => LET o == CancelOutcome(hs, rs, rs[i].reservation_id) IN
           /\ o.result = "True"
           /\ Len(o.reservations) = Len(rs) - 1
           /\ ~Present(o.reservations, "reservation_id",
                       rs[i].reservation_id)

\* C14: delete_hotel and delete_customer never change the reservations;
\* the reservations that reference the deleted hotel or customer stay as
\* they are, and a later cancel_reservation of such a reservation returns
\* True and removes it.
C14_DeleteKeepsReservationsCancellable ==
    [][/\ \A id \in Ids :
             (/\ ret'.op = "delete_hotel" /\ ret'.result = "True"
              /\ delete_hotel(id))
             => /\ reservations' = reservations
                /\ StillCancellable(hotels', reservations', "hotel_id", id)
       /\ \A id \in Ids :
             (/\ ret'.op = "delete_customer" /\ ret'.result = "True"
              /\ delete_customer(id))
             => /\ reservations' = reservations
                /\ StillCancellable(hotels', reservations', "customer_id",
                                    id)
      ]_vars

\* coll without the records that carry id, the others in their order
Remaining(coll, key, id) == SelectSeq(coll, LAMBDA x : x[key] # id)

DeletedAsClaimed(coll, coll2, file, key, id) ==
    IF Present(coll, key, id)
    THEN /\ ret'.result = "True"
         /\ coll2 = Remaining(coll, key, id)
         /\ disk'[file] = "list"
    ELSE /\ ret'.result = "False"
         /\ coll2 = coll
         /\ disk'[file] = disk[file]

\* C15: delete_hotel(id) / delete_customer(id) returns False and does not
\* write the collection when no record has the identifier; otherwise it
\* returns True and the stored collection is the previous one without the
\* records that carry the identifier, the others unchanged and in order.
C15_DeleteRemovesMatching ==
    [][/\ \A id \in Ids :
             (ret'.op = "delete_hotel" /\ delete_hotel(id))
             => DeletedAsClaimed(hotels, hotels', "hotels", "hotel_id", id)
       /\ \A id \in Ids :
             (ret'.op = "delete_customer" /\ delete_customer(id))
             => DeletedAsClaimed(customers, customers', "customers",
                                 "customer_id", id)
      ]_vars

\* delete_hotel has just removed the first of two hotels
C15_Witness ==
    /\ ret.op = "delete_hotel"
    /\ ret.result = "True"
    /\ Len(hotels) = 1
    /\ hotels[1].hotel_id = Num(2)

AppendedOne(coll, coll2, key, id) ==
    /\ ret'.result = "True"
    /\ Len(coll2) = Len(coll) + 1
    /\ \A i \in DOMAIN coll : coll2[i] = coll[i]
    /\ coll2[Len(coll2)][key] = id

\* C16: create_hotel / create_customer with an identifier that is not in
\* the collection returns True and appends exactly one record at the end,
\* the existing records unchanged; the new hotel record has
\* available_rooms equal to its total_rooms.
C16_CreateAppendsOneRecord ==
    [][/\ \A id \in Ids, n \in RoomCounts :
             (/\ ret'.op = "create_hotel"
              /\ ~Present(hotels, "hotel_id", id)
              /\ create_hotel(id, Text(0), Text(0), n))
             => /\ AppendedOne(hotels, hotels', "hotel_id", id)
                /\ hotels'[Len(hotels')].total_rooms = n
                /\ hotels'[Len(hotels')].available_rooms = n
       /\ \A id \in CustomerIds :
             (/\ ret'.op = "create_customer"
              /\ ~Present(customers, "customer_id", id)
              /\ create_customer(id, Text(0), Text(0), Text(0)))
             => AppendedOne(customers, customers', "customer_id", id)
      ]_vars

\* create_hotel has just added a hotel with one room behind another hotel
C16_Witness ==
    /\ ret.op = "create_hotel"
    /\ ret.result = "True"
    /\ Len(hotels) = 2
    /\ hotels[2].total_rooms = Num(1)
    /\ hotels[2].available_rooms = Num(1)

FilesUnchanged(files) == \A f \in files : disk'[f] = disk[f]

\* C20: each operation writes only its own collections. The hotel
\* operations leave customers and reservations unchanged, the customer
\* operations leave hotels and reservations unchanged, create_reservation
\* and cancel_reservation leave customers unchanged, and the display_*
\* operations leave all three unchanged.
C20_WritesOwnCollections ==
    [][/\ ret'.op \in {"create_hotel", "delete_hotel", "modify_hotel"}
             => /\ UNCHANGED <<customers, reservations>>
                /\ FilesUnchanged({"customers", "reservations"})
       /\ ret'.op \in {"create_customer", "delete_customer",
                       "modify_customer"}
             => /\ UNCHANGED <<hotels, reservations>>
                /\ FilesUnchanged({"hotels", "reservations"})
       /\ ret'.op \in {"create_reservation", "cancel_reservation"}
             => /\ UNCHANGED customers
                /\ FilesUnchanged({"customers"})
       /\ ret'.op \in Displays
             => /\ UNCHANGED <<hotels, customers, reservations>>
                /\ FilesUnchanged(Files)
      ]_vars

\* delete_customer has just removed a customer whose reservation is still
\* stored
C20_Witness ==
    /\ ret.op = "delete_customer"
    /\ ret.result = "True"
    /\ \E i \in DOMAIN reservations :
          ~Present(customers, "customer_id", reservations[i].customer_id)

\* C19: when modify_hotel is never called and hotels are created with
\* total_rooms >= 0, every hotel's available_rooms is a number >= 0 in
\* every reachable state.
C19_AvailableNeverNegative ==
    \A i \in DOMAIN hotels :
        /\ IsNum(hotels[i].available_rooms)
        /\ hotels[i].available_rooms.v >= 0

\* create_reservation has just been refused at a hotel whose only room is
\* taken
C19_Witness ==
    /\ ret.op = "create_reservation"
    /\ ret.msg = "No available rooms."
    /\ \E i \in DOMAIN hotels :
          /\ hotels[i].total_rooms = Num(1)
          /\ hotels[i].available_rooms = Num(0)

\* the file does not hold a list the program wrote
Faulty(f) == disk[f] \in {"absent", "invalid", "undecodable"}

ReadsEmpty(f, display, refusing) ==
    Faulty(f)
    => /\ ret'.op = display => (ret'.result = "list" /\ ret'.value = <<>>)
       /\ ret'.op \in refusing => ret'.result = "False"

CreatesTheOnlyRecord(f, create, coll2) ==
    (Faulty(f) /\ ret'.op = create)
    => (ret'.result = "True" /\ Len(coll2) = 1)

\* C12: when a collection's file is absent, unreadable or malformed, the
\* load yields the empty sequence: display_* returns an empty sequence,
\* delete_*, modify_* and cancel_reservation on the collection return
\* False, and create_hotel / create_customer succeeds and leaves the
\* collection with exactly the one new record.
C12_FaultyStorageReadsEmpty ==
    [][/\ ReadsEmpty("hotels", "display_hotels",
                     {"delete_hotel", "modify_hotel"})
       /\ CreatesTheOnlyRecord("hotels", "create_hotel", hotels')
       /\ ReadsEmpty("customers", "display_customers",
                     {"delete_customer", "modify_customer"})
       /\ CreatesTheOnlyRecord("customers", "create_customer", customers')
       /\ ReadsEmpty("reservations", "display_reservations",
                     {"cancel_reservation"})
      ]_vars

\* every stored hotel that carries id has the counter n
CounterIs(id, n) ==
    /\ Present(hotels, "hotel_id", id)
    /\ \A i \in DOMAIN hotels :
          hotels[i].hotel_id = id => hotels[i].available_rooms = Num(n)

\* the call has passed its checks and is at, between or behind its saves
Saving(c) == c.pc \in {"save", "stopped"} \/ c.result = "True"

\* C17: create_reservation and cancel_reservation save hotels before
\* reservations. When create_reservation is stopped between its two saves,
\* the stored hotel has its available_rooms decremented and no reservation
\* with the new reservation_id is stored; in no state is the new
\* reservation stored while the hotel's counter is still undecremented.
C17_HotelsSavedBeforeReservations ==
    \A p \in Callers :
        LET c == calls[p] IN
        /\ c.written \in {<<>>, <<"hotels">>, <<"hotels", "reservations">>}
        /\ (c.op = "create_reservation" /\ c.pc = "stopped"
               /\ Len(c.written) = 1)
              => /\ CounterIs(c.hotel_id, c.seen.v - 1)
                 /\ ~Present(reservations, "reservation_id", c.id)
        /\ (c.op = "create_reservation" /\ Saving(c)
               /\ Present(reservations, "reservation_id", c.id))
              => CounterIs(c.hotel_id, c.seen.v - 1)

\* create_reservation has been stopped after its first save
C17_Witness ==
    /\ calls[1].op = "create_reservation"
    /\ calls[1].pc = "stopped"
    /\ Len(calls[1].written) = 1

\* both callers' create_reservation calls, with distinct reservation ids
\* and the same hotel, compared an available_rooms of 1 with 0 and
\* returned True
BothSucceeded ==
    /\ \A p \in Callers :
          /\ calls[p].op = "create_reservation"
          /\ calls[p].pc = "returned"
          /\ calls[p].result = "True"
          /\ calls[p].seen = Num(1)
    /\ calls[1].id # calls[2].id
    /\ calls[1].hotel_id = calls[2].hotel_id

\* the stored reservations that reference the hotel
Referencing(id) ==
    {i \in DOMAIN reservations : reservations[i].hotel_id = id}

\* the hotel's counter is what its total_rooms and the stored reservations
\* that reference it give
Consistent(id) ==
    \A i \in DOMAIN hotels :
        hotels[i].hotel_id = id
        => hotels[i].available_rooms.v =
              hotels[i].total_rooms.v - Cardinality(Referencing(id))

\* C18 as stated: when two interleaved create_reservation calls (distinct
\* reservation ids, same hotel, available_rooms == 1) both observe
\* available_rooms > 0 and both return True, the hotel's counter is left
\* negative or inconsistent with the number of stored reservations that
\* reference it.
C18_RaceLeavesCounterInconsistent ==
    BothSucceeded
    => \/ \E i \in DOMAIN hotels :
             /\ hotels[i].hotel_id = calls[1].hotel_id
             /\ hotels[i].available_rooms.v < 0
       \/ ~Consistent(calls[1].hotel_id)

\* C18, amended: when two interleaved create_reservation calls (distinct
\* reservation ids, same hotel, available_rooms == 1) both observe
\* available_rooms > 0 and both return True, the hotel's counter is 0 and
\* consistent with the stored reservations, and exactly one of the two
\* new reservations is stored: the other one is lost.
C18_RaceLosesOneReservation ==
    BothSucceeded
    => /\ CounterIs(calls[1].hotel_id, 0)
       /\ Consistent(calls[1].hotel_id)
       /\ Present(reservations, "reservation_id", calls[1].id)
             # Present(reservations, "reservation_id", calls[2].id)

\* both calls have returned True and the file holds the second caller's
\* reservation only
C18_Witness ==
    /\ BothSucceeded
    /\ Present(reservations, "reservation_id", calls[2].id)
    /\ ~Present(reservations, "reservation_id", calls[1].id)

====
